---- MODULE Spec2Model ----
(***************************************************************************)
(* Model of the authorization core of valkyrjs/iam:                        *)
(*   - Auth (libraries/auth.ts): generate / resolve with the lazily        *)
(*     imported key material, one process per in-flight call;              *)
(*   - PrincipalProvider (libraries/principal.ts);                         *)
(*   - ResourceRegistry (libraries/resources.ts): constructor, has, get,   *)
(*     parse;                                                              *)
(*   - the access control instance of the test suite (tests/mocks/         *)
(*     access.ts): isAllowed, checkResource, checkResources.               *)
(* The jose primitives (SignJWT, jwtVerify, importPKCS8, importSPKI) are   *)
(* modelled at the call sites by their documented behaviour.               *)
(***************************************************************************)
EXTENDS Integers, Sequences, FiniteSets, TLC

VARIABLES
  now,        \* the wall clock, in seconds (new Date() inside jose)
  cfg,        \* Auth instance -> its config.jwt
  secret,     \* Auth instance -> #secret
  pubkey,     \* Auth instance -> #pubkey
  callers,    \* the callers that issue calls in this run
  calls,      \* call slot -> the in-flight or finished generate/resolve call
  issued,     \* the token the callers hold, returned by generate
  resources,  \* the list handed to the ResourceRegistry constructor
  index,      \* ResourceRegistry.#index
  lastOp,     \* the last has/get/parse call on the registry and its outcome
  instances,  \* the access control instances built by the provider
  asked,      \* the isAllowed call before the last call on an instance
  accessOp,   \* the last call on an access control instance and its outcome
  files,      \* the migration files, in the order the directory lists them
  table,      \* the rows of the migration table
  database,   \* the migrations whose up step is committed, in commit order
  run         \* the migration runner: position, snapshot, the ups it executed

authVars == <<now, cfg, callers, secret, pubkey, calls, issued>>
registryVars == <<resources, index, lastOp>>
accessVars == <<instances, asked, accessOp>>
migrationVars == <<files, table, database, run>>
vars ==
  <<now, cfg, callers, secret, pubkey, calls, issued, resources, index, lastOp,
    instances, asked, accessOp, files, table, database, run>>

-----------------------------------------------------------------------------
\* Bounds of the model

MaxTime == 1
MaxEntries == 2
MaxBatch == 3
MaxMigrations == 3

-----------------------------------------------------------------------------
\* Values

Undefined == "<undefined>"
NotANumber == "<number>"
NonStrings == {Undefined, NotANumber}

IsString(v) == v \notin NonStrings

Auths == {"a1", "a2"}
\* the callers that may have a call in flight at the same time
Slots == {1, 2}
Ids == {"abc", "account-a"}

IssuerA == "https://valkyrjs.com"
IssuerB == "https://other.example"

\* "1 hour", the default expiration of generate, in seconds
Hour == 3600

-----------------------------------------------------------------------------
\* Key material (jose importPKCS8 / importSPKI)

NoKey == [type |-> "none", pair |-> 0]

\* importPKCS8(privateKey, algorithm): the parsed private key, or a rejection
ImportPKCS8(pem) ==
  CASE pem = "private-1" -> [ok |-> TRUE, key |-> [type |-> "private", pair |-> 1]]
    [] pem = "private-2" -> [ok |-> TRUE, key |-> [type |-> "private", pair |-> 2]]
    [] OTHER -> [ok |-> FALSE, key |-> NoKey]

\* Variant of ImportSPKI: the key object handed out is the private key
ImportSPKIPrivate(pem) ==
  CASE pem = "public-1" -> [ok |-> TRUE, key |-> [type |-> "private", pair |-> 1]]
    [] pem = "public-2" -> [ok |-> TRUE, key |-> [type |-> "private", pair |-> 2]]
    [] OTHER -> [ok |-> FALSE, key |-> NoKey]

\* importSPKI(publicKey, algorithm): the parsed public key, or a rejection
ImportSPKI(pem) ==
  CASE pem = "public-1" -> [ok |-> TRUE, key |-> [type |-> "public", pair |-> 1]]
    [] pem = "public-2" -> [ok |-> TRUE, key |-> [type |-> "public", pair |-> 2]]
    [] OTHER -> [ok |-> FALSE, key |-> NoKey]

\* config.jwt of the test suite's Auth instance
MockJwt ==
  [algorithm |-> "RS256", privateKey |-> "private-1", publicKey |-> "public-1",
   issuer |-> IssuerA, audience |-> IssuerA]

\* The deployments explored: a1 is the test suite's instance, a2 is a second
\* instance that equals it, differs from it in one setting, or has key strings
\* that are no keys.
Deployments ==
  { [a \in Auths |-> IF a = "a1" THEN MockJwt ELSE j] :
      j \in { MockJwt,
              [MockJwt EXCEPT !.issuer = IssuerB],
              [MockJwt EXCEPT !.audience = IssuerB],
              [MockJwt EXCEPT !.privateKey = "private-2", !.publicKey = "public-2"],
              [MockJwt EXCEPT !.privateKey = "not a key", !.publicKey = "not a key"] } }

-----------------------------------------------------------------------------
\* Tokens (jose SignJWT / jwtVerify)

NoPayload == [id |-> Undefined, iat |-> 0, iss |-> "", aud |-> "", exp |-> 0]

NoSig == [pair |-> 0, header |-> [alg |-> ""], payload |-> NoPayload, flip |-> 0]

NoToken ==
  [form |-> "none", header |-> [alg |-> ""], payload |-> NoPayload, sig |-> NoSig]

\* a string that is not a compact JWS
Malformed == [NoToken EXCEPT !.form = "garbage"]

\* the time spans tried, in seconds ("1 second")
Spans == {1}

\* the expiration argument of generate
Expirations ==
  {[kind |-> "default", v |-> 0, neg |-> FALSE]}
    \cup {[kind |-> "number", v |-> n, neg |-> FALSE] : n \in {MaxTime}}
    \cup {[kind |-> "span", v |-> d, neg |-> b] : d \in Spans, b \in BOOLEAN}

\* Variant of ExpirationTime: a negated time span is added like any other
ExpirationTimeNoNegation(expiration, t) ==
  CASE expiration.kind = "number" -> expiration.v
    [] expiration.kind = "default" -> t + Hour
    [] OTHER -> t + expiration.v

\* SignJWT.setExpirationTime: a number is the claim itself, a time span is
\* added to (or, when negated, subtracted from) the current timestamp
ExpirationTime(expiration, t) ==
  CASE expiration.kind = "number" -> expiration.v
    [] expiration.kind = "default" -> t + Hour
    [] OTHER -> IF expiration.neg THEN t - expiration.v ELSE t + expiration.v

\* Variant of Claims: issuer and audience change places
ClaimsSwapped(jwt, id, expiration, t) ==
  [form |-> "jws",
   header |-> [alg |-> jwt.algorithm],
   payload |-> [id |-> id, iat |-> t, iss |-> jwt.audience, aud |-> jwt.issuer,
                exp |-> ExpirationTime(expiration, t)],
   sig |-> NoSig]

\* the claims and protected header built by generate before signing
Claims(jwt, id, expiration, t) ==
  [form |-> "jws",
   header |-> [alg |-> jwt.algorithm],
   payload |-> [id |-> id, iat |-> t, iss |-> jwt.issuer, aud |-> jwt.audience,
                exp |-> ExpirationTime(expiration, t)],
   sig |-> NoSig]

\* SignJWT.sign: the signature of the private key over header and payload
Sign(t, key) ==
  [t EXCEPT !.sig = [pair |-> key.pair, header |-> t.header,
                     payload |-> t.payload, flip |-> 0]]

\* a token whose signature segment was changed
TamperSignature(t) == [t EXCEPT !.sig.flip = 1]

\* a token whose payload was changed (another subject id), signature kept
TamperPayload(t, id) == [t EXCEPT !.payload.id = id]

SignatureVerifies(t, key) ==
  /\ key.type = "public"
  /\ t.sig.pair = key.pair
  /\ t.sig.flip = 0
  /\ t.sig.header = t.header
  /\ t.sig.payload = t.payload

JoseCodes ==
  {"ERR_JWS_INVALID", "ERR_JWS_SIGNATURE_VERIFICATION_FAILED",
   "ERR_JWT_CLAIM_VALIDATION_FAILED", "ERR_JWT_EXPIRED"}

JoseError(code, message) == [ok |-> FALSE, code |-> code, message |-> message]

VerifyOK == [ok |-> TRUE, code |-> "", message |-> ""]

\* Variant of JwtVerify: a token is still accepted at the instant of its exp
JwtVerifyLateExpiry(t, key, jwt, clock) ==
  IF t.form # "jws"
    THEN JoseError("ERR_JWS_INVALID", "Invalid Compact JWS")
  ELSE IF ~SignatureVerifies(t, key)
    THEN JoseError("ERR_JWS_SIGNATURE_VERIFICATION_FAILED", "signature verification failed")
  ELSE IF t.payload.iss # jwt.issuer
    THEN JoseError("ERR_JWT_CLAIM_VALIDATION_FAILED", "unexpected \"iss\" claim value")
  ELSE IF t.payload.aud # jwt.audience
    THEN JoseError("ERR_JWT_CLAIM_VALIDATION_FAILED", "unexpected \"aud\" claim value")
  ELSE IF t.payload.exp < clock
    THEN JoseError("ERR_JWT_EXPIRED", "\"exp\" claim timestamp check failed")
  ELSE VerifyOK

\* Variant of JwtVerify: the token is decoded, its signature is not checked
JwtVerifyNoSignature(t, key, jwt, clock) ==
  IF t.form # "jws"
    THEN JoseError("ERR_JWS_INVALID", "Invalid Compact JWS")
  ELSE IF t.payload.iss # jwt.issuer
    THEN JoseError("ERR_JWT_CLAIM_VALIDATION_FAILED", "unexpected \"iss\" claim value")
  ELSE IF t.payload.aud # jwt.audience
    THEN JoseError("ERR_JWT_CLAIM_VALIDATION_FAILED", "unexpected \"aud\" claim value")
  ELSE IF t.payload.exp <= clock
    THEN JoseError("ERR_JWT_EXPIRED", "\"exp\" claim timestamp check failed")
  ELSE VerifyOK

\* Variant of JwtVerify: no audience option is passed
JwtVerifyNoAudience(t, key, jwt, clock) ==
  IF t.form # "jws"
    THEN JoseError("ERR_JWS_INVALID", "Invalid Compact JWS")
  ELSE IF ~SignatureVerifies(t, key)
    THEN JoseError("ERR_JWS_SIGNATURE_VERIFICATION_FAILED", "signature verification failed")
  ELSE IF t.payload.iss # jwt.issuer
    THEN JoseError("ERR_JWT_CLAIM_VALIDATION_FAILED", "unexpected \"iss\" claim value")
  ELSE IF t.payload.exp <= clock
    THEN JoseError("ERR_JWT_EXPIRED", "\"exp\" claim timestamp check failed")
  ELSE VerifyOK

\* Variant of JwtVerify: the token is decoded and nothing is verified
JwtVerifyDecodeOnly(t, key, jwt, clock) ==
  IF t.form # "jws"
    THEN JoseError("ERR_JWS_INVALID", "Invalid Compact JWS")
  ELSE VerifyOK

\* jwtVerify(token, key, {issuer, audience}) at the given clock: ok, or the
\* JOSEError thrown. The compact form and the signature are checked first,
\* then the iss and aud claims, then the exp claim.
JwtVerify(t, key, jwt, clock) ==
  IF t.form # "jws"
    THEN JoseError("ERR_JWS_INVALID", "Invalid Compact JWS")
  ELSE IF ~SignatureVerifies(t, key)
    THEN JoseError("ERR_JWS_SIGNATURE_VERIFICATION_FAILED", "signature verification failed")
  ELSE IF t.payload.iss # jwt.issuer
    THEN JoseError("ERR_JWT_CLAIM_VALIDATION_FAILED", "unexpected \"iss\" claim value")
  ELSE IF t.payload.aud # jwt.audience
    THEN JoseError("ERR_JWT_CLAIM_VALIDATION_FAILED", "unexpected \"aud\" claim value")
  ELSE IF t.payload.exp <= clock
    THEN JoseError("ERR_JWT_EXPIRED", "\"exp\" claim timestamp check failed")
  ELSE VerifyOK

-----------------------------------------------------------------------------
\* Thrown values

\* message is error.message (Undefined when the value is no Error), text is
\* String(error)
Thrown(class, code, message, text) ==
  [class |-> class, code |-> code, message |-> message, text |-> text]

NewError(message) == Thrown("Error", Undefined, message, message)

NoThrown == Thrown("none", Undefined, Undefined, Undefined)

\* the classes for which `error instanceof Error` holds
ErrorClasses == {"Error", "JOSEError", "ZodError"}

-----------------------------------------------------------------------------
\* PrincipalProvider (tests/mocks/role.ts, tests/mocks/principal.ts)

\* RoleSchema: the union of the literals "user" and "admin"
Roles == {"user", "admin"}

NoPrincipal ==
  [id |-> Undefined, roles |-> <<>>, attributes |-> [tenantId |-> Undefined]]

\* PrincipalProvider.schema: {id: string, roles: Role[], attributes: {tenantId: string}}
SchemaOK(p) ==
  /\ IsString(p.id)
  /\ \A i \in 1..Len(p.roles) : p.roles[i] \in Roles
  /\ IsString(p.attributes.tenantId)

Returned(p) == [kind |-> "value", principal |-> p, error |-> NoThrown]
Absent == [kind |-> "absent", principal |-> NoPrincipal, error |-> NoThrown]
Threw(e) == [kind |-> "threw", principal |-> NoPrincipal, error |-> e]

\* schema.parse(raw): the parsed value, or a ZodError
SchemaParse(raw) ==
  IF SchemaOK(raw) THEN Returned(raw)
  ELSE Threw(Thrown("ZodError", Undefined, "Invalid input", "ZodError: Invalid input"))

\* The resolver callbacks an application may hand to the provider:
\*   mock:   the test suite's resolver, this.schema.parse({id, roles, attributes})
\*   absent: no principal for the id
\*   throws / throwsString: the lookup fails with an Error / with a bare string
\*   rogue:  returns unvalidated data that violates the declared schema
ResolverKinds == {"mock", "absent", "throws", "throwsString", "rogue"}

Resolver(kind, id) ==
  CASE kind = "mock" ->
         SchemaParse([id |-> id, roles |-> <<"user">>,
                      attributes |-> [tenantId |-> "tenant-id"]])
    [] kind = "absent" -> Absent
    [] kind = "throws" -> Threw(NewError("lookup failed"))
    [] kind = "throwsString" -> Threw(Thrown("string", Undefined, Undefined, "lookup failed"))
    [] OTHER ->
         Returned([id |-> id, roles |-> <<"root">>,
                   attributes |-> [tenantId |-> NotANumber]])

\* Variant of PrincipalProviderResolve: an absent result is thrown as an error
PrincipalProviderResolveStrict(kind, id) ==
  IF Resolver(kind, id).kind = "absent"
    THEN Threw(NewError("Principal Not Found"))
    ELSE Resolver(kind, id)

\* PrincipalProvider.resolve(id): return this.#resolver(id)
PrincipalProviderResolve(kind, id) == Resolver(kind, id)

-----------------------------------------------------------------------------
\* Access control provider (tests/mocks/access.ts)

AccessKinds == {"mock", "throws"}

NoAccess == [principal |-> NoPrincipal]

\* access(principal): the instance closes over the principal
Access(kind, principal) ==
  IF kind = "mock"
    THEN [ok |-> TRUE, instance |-> [principal |-> principal], error |-> NoThrown]
    ELSE [ok |-> FALSE, instance |-> NoAccess, error |-> NewError("access failed")]

\* isAllowed(tenantId) of the instance built for a principal
IsAllowed(instance, tenantId) == instance.principal.attributes.tenantId = tenantId

\* the tenants of the test suite
Tenants == {"tenant-id", "non-tenant-id"}

\* the principals an instance is built for
AccessPrincipals ==
  {[id |-> "account-a", roles |-> <<"user">>, attributes |-> [tenantId |-> t]] :
     t \in Tenants}

\* the resources asked about: a user of one tenant, a post of the other
AccessResources ==
  { [kind |-> "user", id |-> "1", attr |-> [tenantId |-> "tenant-id", public |-> TRUE]],
    [kind |-> "post", id |-> "2", attr |-> [tenantId |-> "non-tenant-id", owner |-> "1"]] }

Actions == {"read", "update"}

\* the lists of requested actions
ActionLists == {<<"read">>, <<"update">>, <<"read", "update">>}

\* the resource/actions pairs handed to checkResources: the user to read,
\* the post to update
Pairs ==
  {p \in [resource : AccessResources, actions : ActionLists] :
     \/ p.resource.kind = "user" /\ p.actions = <<"read">>
     \/ p.resource.kind = "post" /\ p.actions = <<"update">>}

\* all lists of pairs of length at most n
BatchesUpTo(n) == UNION {[1..k -> Pairs] : k \in 0..n}

\* Variant of IsAllowedResource: a hidden flag denies a check that directly
\* follows another check
IsAllowedResourceOnce(instance, resource, action) ==
  IF action # "read" \/ accessOp.op = "isAllowedResource" THEN FALSE
  ELSE instance.principal.attributes.tenantId = resource.attr.tenantId

\* Variant of IsAllowedResource: the action is not looked at
IsAllowedResourceAnyAction(instance, resource, action) ==
  instance.principal.attributes.tenantId = resource.attr.tenantId

\* isAllowed(resource, action) of the instance built for a principal
IsAllowedResource(instance, resource, action) ==
  IF action # "read" THEN FALSE
  ELSE instance.principal.attributes.tenantId = resource.attr.tenantId

\* checkResource(resource, actions)
CheckResource(instance, resource, actions) ==
  [kind |-> resource.kind, id |-> resource.id, actions |-> actions]

\* Variant of CheckResources: resources.reverse().map(...)
CheckResourcesReversed(instance, pairs) ==
  [i \in 1..Len(pairs) |->
     [kind |-> pairs[Len(pairs) + 1 - i].resource.kind,
      id |-> pairs[Len(pairs) + 1 - i].resource.id,
      actions |-> pairs[Len(pairs) + 1 - i].actions]]

\* checkResources(resources): resources.map(({resource, actions}) => ...)
CheckResources(instance, pairs) ==
  [i \in 1..Len(pairs) |->
     [kind |-> pairs[i].resource.kind, id |-> pairs[i].resource.id,
      actions |-> pairs[i].actions]]

NoCall == [op |-> "none", on |-> 0, args |-> <<>>, out |-> <<>>]

-----------------------------------------------------------------------------
\* Auth (libraries/auth.ts)

NoResult == [valid |-> FALSE, code |-> "", message |-> ""]

\* the arguments of generate and the time of the call; none for resolve
NoArgs ==
  [id |-> Undefined, expiration |-> [kind |-> "none", v |-> 0, neg |-> FALSE],
   at |-> -1]

\* a call slot: which call runs in it, where it stands, and what it has done
Idle ==
  [op |-> "none", auth |-> "a1", pc |-> "idle", args |-> NoArgs, token |-> NoToken,
   key |-> NoKey, vnow |-> -1,
   resolverCalls |-> 0, resolverArg |-> Undefined, resolver |-> "none",
   provided |-> Absent, accessKind |-> "none", accessCalls |-> 0,
   accessArg |-> NoPrincipal,
   result |-> NoResult]

\* Variant of KeyGetter: the promise resolves with the cache field at once,
\* filled or not
KeyGetterEager(cached) == [pc |-> "cached", key |-> cached]

\* Variant of KeyGetter: the key is imported on every access
KeyGetterNoCache(cached) == [pc |-> "import", key |-> NoKey]

\* the body of the `secret` and `pubkey` getters: a cached key resolves the
\* promise at once (pc "cached"), otherwise an import is started, whose
\* callback stores the key and resolves the promise (pc "keyed")
KeyGetter(cached) ==
  IF cached = NoKey THEN [pc |-> "import", key |-> NoKey]
                    ELSE [pc |-> "cached", key |-> cached]

\* the key promise awaited by the call in slot c has resolved
HasKey(c) == calls[c].pc \in {"keyed", "cached"}

\* Variant of SubjectOf: reads payload.sub, a claim generate never sets
SubjectIsSub(token) == Undefined

\* Variant of SubjectOf: the payload is kept in a place the calls share and
\* read back from there, where the first caller's call has put its own
SubjectOfShared(token) ==
  IF calls[1].op = "resolve" /\ calls[1].token.form = "jws"
    THEN calls[1].token.payload.id
    ELSE token.payload.id

\* `payload.id as string`, the argument of the principal provider
SubjectOf(token) == token.payload.id

\* Variant of Catch: only JOSE errors are captured, any other is thrown on
CatchRethrow(error) ==
  IF error.class = "JOSEError"
    THEN [valid |-> FALSE, code |-> error.code, message |-> error.message]
    ELSE [raised |-> error]

\* Variant of Catch: no instanceof JOSEError branch
CatchAllInternal(error) ==
  [valid |-> FALSE, code |-> "AUTH_INTERNAL_ERROR",
   message |-> IF error.class \in ErrorClasses THEN error.message ELSE error.text]

\* the catch block of resolve
Catch(error) ==
  IF error.class = "JOSEError"
    THEN [valid |-> FALSE, code |-> error.code, message |-> error.message]
    ELSE [valid |-> FALSE, code |-> "AUTH_INTERNAL_ERROR",
          message |-> IF error.class \in ErrorClasses THEN error.message
                                                      ELSE error.text]

\* Variant of Session: toJSON also gives the roles of the principal
SessionJSONWithRoles(principal, instance, token) ==
  [valid |-> TRUE,
   principal |-> principal,
   access |-> instance,
   meta |-> [headers |-> token.header, payload |-> token.payload],
   toJSON |-> [id |-> token.payload.id, roles |-> principal.roles]]

\* Variant of Session: the valid=true value also carries a code and a message
SessionWithCode(principal, instance, token) ==
  [valid |-> TRUE,
   code |-> "OK",
   message |-> "",
   principal |-> principal,
   access |-> instance,
   meta |-> [headers |-> token.header, payload |-> token.payload],
   toJSON |-> [id |-> token.payload.id]]

\* the valid=true value returned by resolve
Session(principal, instance, token) ==
  [valid |-> TRUE,
   principal |-> principal,
   access |-> instance,
   meta |-> [headers |-> token.header, payload |-> token.payload],
   toJSON |-> [id |-> token.payload.id]]

\* Variant of Resolved: no `principal === undefined` check
ResolvedNoAbsenceCheck(token, provided, accessKind) ==
  IF provided.kind = "threw" THEN Catch(provided.error)
  ELSE LET a == Access(accessKind, provided.principal) IN
       IF a.ok THEN Session(provided.principal, a.instance, token)
               ELSE Catch(a.error)

\* Variant of Resolved: the access instance is one kept from the first
\* resolution of the subject, not one built from the principal of this call
ResolvedStaleAccess(token, provided, accessKind) ==
  IF provided.kind = "threw" THEN Catch(provided.error)
  ELSE IF provided.kind = "absent" THEN Catch(NewError("Principal Not Found"))
  ELSE LET a == Access(accessKind, Resolver("mock", provided.principal.id).principal) IN
       IF a.ok THEN Session(provided.principal, a.instance, token)
               ELSE Catch(a.error)

\* resolve from `const principal = await ...` on: the value returned, given
\* what the principal provider yielded and the access provider to call
Resolved(token, provided, accessKind) ==
  IF provided.kind = "threw" THEN Catch(provided.error)
  ELSE IF provided.kind = "absent" THEN Catch(NewError("Principal Not Found"))
  ELSE LET a == Access(accessKind, provided.principal) IN
       IF a.ok THEN Session(provided.principal, a.instance, token)
               ELSE Catch(a.error)

\* Callers are interchangeable: caller 2 issues a call only while caller 1
\* has one in flight. A caller takes the result of a finished call before
\* anything else happens.
MayCall(c) ==
  /\ c \in callers
  /\ calls[c].pc = "idle"
  /\ \A d \in Slots : d < c => calls[d].pc # "idle"
  /\ \A d \in Slots : calls[d].pc # "done"

NoneDone == \A d \in Slots : calls[d].pc # "done"

\* the instances the callers use: concurrent callers share one instance
Instances == IF callers = Slots THEN {"a1"} ELSE Auths

\* the expiration arguments the callers pass: concurrent callers omit it
ExpirationInputs ==
  IF callers = Slots THEN {e \in Expirations : e.kind = "default"} ELSE Expirations

\* the tokens a caller can hand to resolve
TokenInputs ==
  issued \cup {TamperSignature(t) : t \in issued}
         \cup {TamperPayload(t, id) : t \in issued, id \in Ids}
         \cup {Malformed}

\* the migration runner before it is called
NoRun == [pc |-> "idle", applied |-> {}, migrations |-> <<>>, pos |-> 0, ups |-> <<>>]

\* no migration directory and no runner
NoMigrations ==
  /\ files = <<>>
  /\ table = {}
  /\ database = <<>>
  /\ run = NoRun

\* A run has one caller and any of the deployments, or concurrent callers on
\* an instance set up as the test suite's.
Init ==
  /\ now = 0
  /\ \/ callers = {1} /\ cfg \in Deployments
     \/ callers = Slots /\ cfg = [a \in Auths |-> MockJwt]
  /\ secret = [a \in Auths |-> NoKey]
  /\ pubkey = [a \in Auths |-> NoKey]
  /\ calls = [c \in Slots |-> Idle]
  /\ issued = {}
  /\ resources = <<>>
  /\ index = <<>>
  /\ lastOp = [op |-> "none"]
  /\ instances = <<>>
  /\ asked = NoCall
  /\ accessOp = NoCall
  /\ NoMigrations

\* the clock advances
Tick ==
  /\ now < MaxTime
  /\ NoneDone
  /\ now' = now + 1
  /\ UNCHANGED <<cfg, callers, secret, pubkey, calls, issued, registryVars, accessVars, migrationVars>>

\* the callers with a generate call in flight
Generating == {d \in Slots : calls[d].op = "generate"}

\* auth.generate(payload, expiration) up to `await this.secret`; a caller
\* asks for a token only while it holds none
GenerateCall(c, a, id, expiration) ==
  /\ MayCall(c)
  /\ Cardinality(issued) + Cardinality(Generating) < Cardinality(callers)
  /\ LET g == KeyGetter(secret[a]) IN
     calls' = [calls EXCEPT ![c] =
                 [Idle EXCEPT !.op = "generate", !.auth = a,
                              !.args = [id |-> id, expiration |-> expiration,
                                        at |-> now],
                              !.token = Claims(cfg[a], id, expiration, now),
                              !.pc = g.pc, !.key = g.key]]
  /\ UNCHANGED <<now, cfg, callers, secret, pubkey, issued, registryVars, accessVars, migrationVars>>

\* importPKCS8(...).then(...) of the `secret` getter settles
SecretImported(c) ==
  /\ calls[c].pc = "import"
  /\ calls[c].op = "generate"
  /\ NoneDone
  /\ LET r == ImportPKCS8(cfg[calls[c].auth].privateKey) IN
     \/ /\ r.ok
        /\ secret' = [secret EXCEPT ![calls[c].auth] = r.key]
        /\ calls' = [calls EXCEPT ![c].pc = "keyed", ![c].key = r.key]
     \/ /\ ~r.ok
        /\ calls' = [calls EXCEPT ![c].pc = "hung"]
        /\ UNCHANGED secret
  /\ UNCHANGED <<now, cfg, callers, pubkey, issued, registryVars, accessVars, migrationVars>>

\* SignJWT.sign(key) settles and generate returns the token
SignDone(c) ==
  /\ HasKey(c)
  /\ calls[c].op = "generate"
  /\ NoneDone
  /\ LET t == Sign(calls[c].token, calls[c].key) IN
     /\ calls' = [calls EXCEPT ![c].pc = "done", ![c].token = t]
     /\ issued' = issued \cup {t}
  /\ UNCHANGED <<now, cfg, callers, secret, pubkey, registryVars, accessVars, migrationVars>>

\* auth.resolve(token) up to `await this.pubkey`
ResolveCall(c, a, t) ==
  /\ MayCall(c)
  /\ LET g == KeyGetter(pubkey[a]) IN
     calls' = [calls EXCEPT ![c] =
                 [Idle EXCEPT !.op = "resolve", !.auth = a, !.token = t,
                              !.pc = g.pc, !.key = g.key]]
  /\ UNCHANGED <<now, cfg, callers, secret, pubkey, issued, registryVars, accessVars, migrationVars>>

\* importSPKI(...).then(...) of the `pubkey` getter settles
PubkeyImported(c) ==
  /\ calls[c].pc = "import"
  /\ calls[c].op = "resolve"
  /\ NoneDone
  /\ LET r == ImportSPKI(cfg[calls[c].auth].publicKey) IN
     \/ /\ r.ok
        /\ pubkey' = [pubkey EXCEPT ![calls[c].auth] = r.key]
        /\ calls' = [calls EXCEPT ![c].pc = "keyed", ![c].key = r.key]
     \/ /\ ~r.ok
        /\ calls' = [calls EXCEPT ![c].pc = "hung"]
        /\ UNCHANGED pubkey
  /\ UNCHANGED <<now, cfg, callers, secret, issued, registryVars, accessVars, migrationVars>>

\* jwtVerify settles: a JOSEError goes to the catch block, otherwise the
\* principal provider is invoked with payload.id
VerifyDone(c) ==
  /\ HasKey(c)
  /\ calls[c].op = "resolve"
  /\ NoneDone
  /\ LET v == JwtVerify(calls[c].token, calls[c].key, cfg[calls[c].auth], now) IN
     calls' = [calls EXCEPT ![c] =
       IF v.ok
         THEN [@ EXCEPT !.pc = "principal", !.vnow = now, !.resolverCalls = 1,
                        !.resolverArg = SubjectOf(calls[c].token)]
         ELSE [@ EXCEPT !.pc = "done", !.vnow = now,
                        !.result = Catch(Thrown("JOSEError", v.code, v.message, v.message))]]
  /\ UNCHANGED <<now, cfg, callers, secret, pubkey, issued, registryVars, accessVars, migrationVars>>

\* the principal provider settles; resolve builds the access instance and
\* returns
PrincipalSettled(c, resolver, accessKind) ==
  /\ calls[c].pc = "principal"
  /\ NoneDone
  /\ LET provided == PrincipalProviderResolve(resolver, calls[c].resolverArg)
         built == provided.kind = "value" IN
     calls' = [calls EXCEPT ![c] =
       [@ EXCEPT !.pc = "done", !.resolver = resolver, !.provided = provided,
                 !.accessKind = accessKind,
                 !.accessCalls = IF built THEN 1 ELSE 0,
                 !.accessArg = IF built THEN provided.principal ELSE NoPrincipal,
                 !.result = Resolved(calls[c].token, provided, accessKind)]]
  /\ UNCHANGED <<now, cfg, callers, secret, pubkey, issued, registryVars, accessVars, migrationVars>>

\* the caller is done with a finished call; the slot is free again
Release(c) ==
  /\ calls[c].pc = "done"
  /\ calls' = [calls EXCEPT ![c] = Idle]
  /\ UNCHANGED <<now, cfg, callers, secret, pubkey, issued, registryVars, accessVars, migrationVars>>

\* the caller drops the token it holds, once no call is in flight
Forget(t) ==
  /\ t \in issued
  /\ \A d \in Slots : calls[d].pc \in {"idle", "hung"}
  /\ issued' = issued \ {t}
  /\ UNCHANGED <<now, cfg, callers, secret, pubkey, calls, registryVars, accessVars, migrationVars>>

Next ==
  \/ Tick
  \/ \E c \in Slots, a \in Instances, id \in Ids, e \in ExpirationInputs : GenerateCall(c, a, id, e)
  \/ \E c \in Slots : SecretImported(c)
  \/ \E c \in Slots : SignDone(c)
  \/ \E c \in Slots, a \in Instances, t \in TokenInputs : ResolveCall(c, a, t)
  \/ \E c \in Slots : PubkeyImported(c)
  \/ \E c \in Slots : VerifyDone(c)
  \/ \E c \in Slots, r \in ResolverKinds, k \in AccessKinds : PrincipalSettled(c, r, k)
  \/ \E c \in Slots : Release(c)
  \/ \E t \in issued : Forget(t)

Spec == Init /\ [][Next]_vars

\* The event loop runs the continuation of every promise that settles: an
\* import, a signature, a verification and a principal lookup that can settle
\* do settle, and a caller takes the result of a finished call.
Fairness ==
  \A c \in Slots :
    /\ SF_vars(SecretImported(c))
    /\ SF_vars(SignDone(c))
    /\ SF_vars(PubkeyImported(c))
    /\ SF_vars(VerifyDone(c))
    /\ SF_vars(\E r \in ResolverKinds, k \in AccessKinds : PrincipalSettled(c, r, k))
    /\ WF_vars(Release(c))

SpecLive == Init /\ [][Next]_vars /\ Fairness

-----------------------------------------------------------------------------
\* ResourceRegistry (libraries/resources.ts)

Str(v) == [ty |-> "string", v |-> v]
Bool(v) == [ty |-> "boolean", v |-> v]

\* attribute shapes: attribute name -> the type its zod schema accepts
UserAttr == [tenantId |-> "string", public |-> "boolean"]
PublicAttr == [public |-> "boolean"]
PostAttr == [owner |-> "string"]

\* the entries a registry may be built from; two of them share the kind "user"
Entries ==
  { [kind |-> "user", attr |-> UserAttr, actions |-> <<"read">>],
    [kind |-> "user", attr |-> PublicAttr, actions |-> <<"read", "update">>],
    [kind |-> "post", attr |-> PostAttr, actions |-> <<"update">>] }

\* the kinds asked for; "comment" is never registered
KindInputs == {"user", "post", "comment"}

ResourceIds == {"u1", "doc-123"}

\* raw attributes handed to parse: conforming, missing a field, of a wrong
\* type, with a key the schema does not know
RawAttrs ==
  { [tenantId |-> Str("t1"), public |-> Bool("true")],
    [public |-> Bool("true")],
    [tenantId |-> Str("t1")],
    [tenantId |-> Str("t1"), public |-> Str("yes")],
    [owner |-> Str("u1")],
    [owner |-> Str("u1"), extra |-> Str("x")] }

\* all lists of entries of length at most n
ListsUpTo(n) == UNION {[1..k -> Entries] : k \in 0..n}

\* Map.prototype.set
MapSet(m, k, v) == [x \in (DOMAIN m) \cup {k} |-> IF x = k THEN v ELSE m[x]]

\* Variant of RegistryIndex: an entry is set only when its kind is new
RECURSIVE RegistryIndexFirstWins(_)
RegistryIndexFirstWins(list) ==
  IF Len(list) = 0 THEN <<>>
  ELSE LET first == list[1] IN
       MapSet(RegistryIndexFirstWins(Tail(list)), first.kind,
              [attr |-> first.attr, actions |-> first.actions])

\* the constructor: #index after the loop over the given list
RECURSIVE RegistryIndex(_)
RegistryIndex(list) ==
  IF Len(list) = 0 THEN <<>>
  ELSE LET last == list[Len(list)] IN
       MapSet(RegistryIndex(SubSeq(list, 1, Len(list) - 1)), last.kind,
              [attr |-> last.attr, actions |-> last.actions])

\* ZodObject.parse(raw): every key of the shape must be present with the
\* right type; keys the shape does not name are stripped
ZodObjectParse(shape, raw) ==
  IF \A k \in DOMAIN shape : k \in DOMAIN raw /\ raw[k].ty = shape[k]
    THEN [returned |-> [k \in DOMAIN shape |-> raw[k]]]
    ELSE [threw |-> "ZodError"]

\* Variant of IndexAfter: a kind that is looked up and missing is entered
\* with an empty schema
IndexAfterEntering(idx, kind) ==
  IF kind \in DOMAIN idx THEN idx
  ELSE MapSet(idx, kind, [attr |-> <<>>, actions |-> <<>>])

\* #index after has, get or parse of a kind: Map.has and Map.get only read
IndexAfter(idx, kind) == idx

\* has(kind)
RegistryHas(idx, kind) == kind \in DOMAIN idx

\* Variant of RegistryGet: no `resource === undefined` check
RegistryGetUnchecked(idx, kind) ==
  IF kind \notin DOMAIN idx
    THEN [returned |-> [kind |-> kind]]
    ELSE [returned |-> [kind |-> kind, attr |-> idx[kind].attr,
                        actions |-> idx[kind].actions]]

\* get(kind)
RegistryGet(idx, kind) ==
  IF kind \notin DOMAIN idx
    THEN [threw |-> "ResourceNotFoundError", kind |-> kind]
    ELSE [returned |-> [kind |-> kind, attr |-> idx[kind].attr,
                        actions |-> idx[kind].actions]]

\* Variant of RegistryParse: the raw attributes are returned unparsed
RegistryParseUnvalidated(idx, kind, id, raw) ==
  LET resource == RegistryGet(idx, kind) IN
  IF "threw" \in DOMAIN resource THEN resource
  ELSE [returned |-> [kind |-> kind, id |-> id, attr |-> raw]]

\* Variant of RegistryParse: the result carries the kind in place of the id
RegistryParseIdOfKind(idx, kind, id, raw) ==
  LET resource == RegistryGet(idx, kind) IN
  IF "threw" \in DOMAIN resource THEN resource
  ELSE LET attr == ZodObjectParse(resource.returned.attr, raw) IN
       IF "threw" \in DOMAIN attr THEN attr
       ELSE [returned |-> [kind |-> kind, id |-> kind, attr |-> attr.returned]]

\* parse(kind, id, attr)
RegistryParse(idx, kind, id, raw) ==
  LET resource == RegistryGet(idx, kind) IN
  IF "threw" \in DOMAIN resource THEN resource
  ELSE LET attr == ZodObjectParse(resource.returned.attr, raw) IN
       IF "threw" \in DOMAIN attr THEN attr
       ELSE [returned |-> [kind |-> kind, id |-> id, attr |-> attr.returned]]

NoOp == [op |-> "none", kind |-> "", id |-> "", raw |-> <<>>, out |-> <<>>]

\* a registry built from some list of entries, nothing asked of it yet
InitRegistry ==
  /\ now = 0
  /\ cfg = [a \in Auths |-> MockJwt]
  /\ callers = {}
  /\ secret = [a \in Auths |-> NoKey]
  /\ pubkey = [a \in Auths |-> NoKey]
  /\ calls = [c \in Slots |-> Idle]
  /\ issued = {}
  /\ resources \in ListsUpTo(MaxEntries)
  /\ index = RegistryIndex(resources)
  /\ lastOp = NoOp
  /\ instances = <<>>
  /\ asked = NoCall
  /\ accessOp = NoCall
  /\ NoMigrations

Has(kind) ==
  /\ lastOp' = [NoOp EXCEPT !.op = "has", !.kind = kind,
                            !.out = [returned |-> RegistryHas(index, kind)]]
  /\ index' = IndexAfter(index, kind)
  /\ UNCHANGED <<authVars, resources, accessVars, migrationVars>>

Get(kind) ==
  /\ lastOp' = [NoOp EXCEPT !.op = "get", !.kind = kind,
                            !.out = RegistryGet(index, kind)]
  /\ index' = IndexAfter(index, kind)
  /\ UNCHANGED <<authVars, resources, accessVars, migrationVars>>

Parse(kind, id, raw) ==
  /\ lastOp' = [op |-> "parse", kind |-> kind, id |-> id, raw |-> raw,
                out |-> RegistryParse(index, kind, id, raw)]
  /\ index' = IndexAfter(index, kind)
  /\ UNCHANGED <<authVars, resources, accessVars, migrationVars>>

NextRegistry ==
  \/ \E kind \in KindInputs : Has(kind)
  \/ \E kind \in KindInputs : Get(kind)
  \/ \E kind \in KindInputs, id \in ResourceIds, raw \in RawAttrs : Parse(kind, id, raw)

SpecRegistry == InitRegistry /\ [][NextRegistry]_vars

-----------------------------------------------------------------------------
\* Calls on the access control instances (tests/mocks/access.ts)

\* the provider has built two instances for one principal; nothing was asked
InitAccess ==
  /\ now = 0
  /\ cfg = [a \in Auths |-> MockJwt]
  /\ callers = {}
  /\ secret = [a \in Auths |-> NoKey]
  /\ pubkey = [a \in Auths |-> NoKey]
  /\ calls = [c \in Slots |-> Idle]
  /\ issued = {}
  /\ resources = <<>>
  /\ index = <<>>
  /\ lastOp = [op |-> "none"]
  /\ \E p \in AccessPrincipals :
       instances = [i \in Slots |-> Access("mock", p).instance]
  /\ asked = NoCall
  /\ accessOp = NoCall
  /\ NoMigrations

\* the isAllowed call before the call being made
Remembered ==
  IF accessOp.op \in {"isAllowed", "isAllowedResource"} THEN accessOp ELSE asked

IsAllowedCall(i, tenantId) ==
  /\ accessOp' = [op |-> "isAllowed", on |-> i, args |-> <<tenantId>>,
                  out |-> IsAllowed(instances[i], tenantId)]
  /\ asked' = Remembered
  /\ UNCHANGED <<authVars, registryVars, instances, migrationVars>>

IsAllowedResourceCall(i, resource, action) ==
  /\ accessOp' = [op |-> "isAllowedResource", on |-> i, args |-> <<resource, action>>,
                  out |-> IsAllowedResource(instances[i], resource, action)]
  /\ asked' = Remembered
  /\ UNCHANGED <<authVars, registryVars, instances, migrationVars>>

CheckResourceCall(i, resource, actions) ==
  /\ accessOp' = [op |-> "checkResource", on |-> i, args |-> <<resource, actions>>,
                  out |-> CheckResource(instances[i], resource, actions)]
  /\ asked' = Remembered
  /\ UNCHANGED <<authVars, registryVars, instances, migrationVars>>

CheckResourcesCall(i, pairs) ==
  /\ accessOp' = [op |-> "checkResources", on |-> i, args |-> <<pairs>>,
                  out |-> CheckResources(instances[i], pairs)]
  /\ asked' = Remembered
  /\ UNCHANGED <<authVars, registryVars, instances, migrationVars>>

NextAccess ==
  \/ \E i \in Slots, t \in Tenants : IsAllowedCall(i, t)
  \/ \E i \in Slots, r \in AccessResources, a \in Actions : IsAllowedResourceCall(i, r, a)
  \/ \E i \in Slots, r \in AccessResources, l \in ActionLists : CheckResourceCall(i, r, l)
  \/ \E i \in Slots, b \in BatchesUpTo(MaxBatch) : CheckResourcesCall(i, b)

SpecAccess == InitAccess /\ [][NextAccess]_vars

-----------------------------------------------------------------------------
\* The migration runner (makeMigration)

\* the idx values of the migration files
Idxs == 0 .. MaxMigrations - 1

\* the directories of n migration files: a file has the idx it exports and
\* the name of its directory entry (the entries are numbered as listed)
MigrationFiles(n) ==
  {[i \in 1 .. n |-> [idx |-> f[i], name |-> i]] : f \in [1 .. n -> Idxs]}

Directories == UNION {MigrationFiles(n) : n \in 0 .. MaxMigrations}

RECURSIVE InsertByIdx(_, _)
\* m put behind the migrations of s whose idx is not larger
InsertByIdx(m, s) ==
  IF s = <<>> THEN <<m>>
  ELSE IF s[Len(s)].idx <= m.idx THEN Append(s, m)
  ELSE Append(InsertByIdx(m, SubSeq(s, 1, Len(s) - 1)), s[Len(s)])

RECURSIVE SortMigrations(_)
\* migrations.sort((a, b) => a.idx - b.idx): ascending idx, stable
SortMigrations(migrations) ==
  IF migrations = <<>> THEN <<>>
  ELSE InsertByIdx(migrations[Len(migrations)],
                   SortMigrations(SubSeq(migrations, 1, Len(migrations) - 1)))

\* the row the runner inserts for a migration
Row(migration) == [idx |-> migration.idx, name |-> migration.name]

\* INSERT fails when idx or name is in the table (both are UNIQUE)
UniqueViolation(row, rows) ==
  \/ \E r \in rows : r.idx = row.idx
  \/ \E r \in rows : r.name = row.name

\* the migration the loop is at
Current == run.migrations[run.pos]

\* a directory of migration files, an empty migration table
InitMigration ==
  /\ now = 0
  /\ cfg = [a \in Auths |-> MockJwt]
  /\ callers = {}
  /\ secret = [a \in Auths |-> NoKey]
  /\ pubkey = [a \in Auths |-> NoKey]
  /\ calls = [c \in Slots |-> Idle]
  /\ issued = {}
  /\ resources = <<>>
  /\ index = <<>>
  /\ lastOp = [op |-> "none"]
  /\ instances = <<>>
  /\ asked = NoCall
  /\ accessOp = NoCall
  /\ files \in Directories
  /\ table = {}
  /\ database = <<>>
  /\ run = NoRun

\* the runner is called: the table is ensured, the files are loaded, the
\* applied idx are read once and the migrations sorted
Migrate ==
  /\ run.pc \in {"idle", "done", "thrown"}
  /\ run' = [pc |-> "loop",
             applied |-> {r.idx : r \in table},
             migrations |-> SortMigrations(files),
             pos |-> 1,
             ups |-> <<>>]
  /\ UNCHANGED <<authVars, registryVars, accessVars, files, table, database>>

\* the loop skips a migration whose idx is in the applied set
Skip ==
  /\ run.pc = "loop"
  /\ run.pos <= Len(run.migrations)
  /\ Current.idx \in run.applied
  /\ run' = [run EXCEPT !.pos = @ + 1]
  /\ UNCHANGED <<authVars, registryVars, accessVars, files, table, database>>

\* sql.begin and migration.up(tx): up returns, or throws, which rolls the
\* transaction back and makes the runner throw
Up(ok) ==
  /\ run.pc = "loop"
  /\ run.pos <= Len(run.migrations)
  /\ Current.idx \notin run.applied
  /\ run' = [run EXCEPT !.ups = Append(@, Current),
                        !.pc = IF ok THEN "insert" ELSE "thrown"]
  /\ UNCHANGED <<authVars, registryVars, accessVars, files, table, database>>

\* the INSERT and the commit of the transaction: the row and the effects of
\* up are committed together, or a unique violation rolls both back and the
\* runner throws
Insert ==
  /\ run.pc = "insert"
  /\ IF UniqueViolation(Row(Current), table)
       THEN /\ run' = [run EXCEPT !.pc = "thrown"]
            /\ UNCHANGED <<table, database>>
       ELSE /\ table' = table \cup {Row(Current)}
            /\ database' = Append(database, Current)
            /\ run' = [run EXCEPT !.pc = "loop", !.pos = @ + 1]
  /\ UNCHANGED <<authVars, registryVars, accessVars, files>>

\* the loop is through: the runner returns
Complete ==
  /\ run.pc = "loop"
  /\ run.pos > Len(run.migrations)
  /\ run' = [run EXCEPT !.pc = "done"]
  /\ UNCHANGED <<authVars, registryVars, accessVars, files, table, database>>

NextMigration ==
  \/ Migrate
  \/ Skip
  \/ \E ok \in BOOLEAN : Up(ok)
  \/ Insert
  \/ Complete

SpecMigration == InitMigration /\ [][NextMigration]_vars

-----------------------------------------------------------------------------
\* Properties of Auth

ResolveCalls == {c \in Slots : calls[c].op = "resolve"}

\* the resolve calls that have returned
Finished == {c \in ResolveCalls : calls[c].pc = "done"}

\* the tokens generate of instance a can return
GeneratedBy(a) ==
  LET k == ImportPKCS8(cfg[a].privateKey) IN
  IF k.ok
    THEN {Sign(Claims(cfg[a], id, e, t), k.key) :
            id \in Ids, e \in Expirations, t \in 0..MaxTime}
    ELSE {}

\* the call ran on an instance set up as the test suite's: its resolver
\* resolves every id and its access provider returns
MockCollaborators(c) == calls[c].resolver = "mock" /\ calls[c].accessKind = "mock"

\* the shapes of SessionResolution
IsValidSession(r) ==
  /\ DOMAIN r = {"valid", "principal", "access", "meta", "toJSON"}
  /\ r.valid = TRUE

IsInvalidSession(r) ==
  /\ DOMAIN r = {"valid", "code", "message"}
  /\ r.valid = FALSE
  /\ IsString(r.code)
  /\ IsString(r.message)

\* C1 (round trip): resolving, on the same instance, a token that generate
\* returned for subject id and that is not yet expired when it is verified
\* passes verification, and with the test suite's resolver and access
\* provider the result is valid=true with principal.id = id.
RoundTrip ==
  \A c \in Finished :
    LET call == calls[c] IN
    (call.token \in GeneratedBy(call.auth) /\ call.vnow < call.token.payload.exp)
      => /\ call.resolverCalls = 1
         /\ call.resolverArg = call.token.payload.id
         /\ MockCollaborators(c)
              => /\ call.result.valid
                 /\ call.result.principal.id = call.token.payload.id

RoundTripWitness ==
  \E c \in Finished :
    /\ calls[c].token \in GeneratedBy(calls[c].auth)
    /\ calls[c].token.payload.id = "abc"
    /\ MockCollaborators(c)
    /\ calls[c].result.valid
    /\ calls[c].result.principal.id = "abc"

\* C2 (resolve never raises): whatever the token, the resolver outcome and
\* the access provider outcome, a resolve call that has settled has returned
\* a SessionResolution, valid=true or valid=false; it has not thrown.
ResolveNeverRaises ==
  \A c \in Finished :
    IsValidSession(calls[c].result) \/ IsInvalidSession(calls[c].result)

ResolveNeverRaisesWitness ==
  \E c \in Finished :
    /\ calls[c].provided.kind = "threw"
    /\ calls[c].provided.error.class = "string"
    /\ IsInvalidSession(calls[c].result)

\* C3 (expiry): a token generate returned passes verification on its
\* instance while the clock is before its exp claim (and is then valid=true
\* with the test suite's collaborators); verified at or after exp, the result
\* is valid=false with the code ERR_JWT_EXPIRED.
Expiry ==
  \A c \in Finished :
    LET call == calls[c] IN
    call.token \in GeneratedBy(call.auth)
      => /\ call.vnow < call.token.payload.exp
              => /\ call.resolverCalls = 1
                 /\ MockCollaborators(c) => call.result.valid
         /\ call.vnow >= call.token.payload.exp
              => /\ ~call.result.valid
                 /\ call.result.code = "ERR_JWT_EXPIRED"
                 /\ call.resolverCalls = 0

\* a token that was valid when generated ("1 second") and is resolved after
\* its exp
ExpiryWitness ==
  \E c \in Finished :
    /\ calls[c].token \in GeneratedBy(calls[c].auth)
    /\ calls[c].token.payload.exp = calls[c].token.payload.iat + 1
    /\ calls[c].vnow >= calls[c].token.payload.exp
    /\ calls[c].result.code = "ERR_JWT_EXPIRED"

\* the public key of the instance a call runs on
PublicKey(a) == ImportSPKI(cfg[a].publicKey).key

\* C4 (tamper detection): a generated token whose signature segment was
\* changed resolves to valid=false with the signature failure code, and for no
\* token whose signature does not verify against the configured public key is
\* the principal resolver or the access provider invoked.
TamperDetection ==
  \A c \in ResolveCalls :
    LET call == calls[c] IN
    /\ (call.pc = "done" /\ \E a \in Auths : \E t \in GeneratedBy(a) :
                              call.token = TamperSignature(t))
         => /\ ~call.result.valid
            /\ call.result.code = "ERR_JWS_SIGNATURE_VERIFICATION_FAILED"
    /\ ~SignatureVerifies(call.token, PublicKey(call.auth))
         => call.resolverCalls = 0 /\ call.accessCalls = 0

TamperDetectionWitness ==
  \E c \in Finished :
    /\ \E t \in GeneratedBy(calls[c].auth) : calls[c].token = TamperSignature(t)
    /\ calls[c].result.code = "ERR_JWS_SIGNATURE_VERIFICATION_FAILED"

\* instance b shares key pair and algorithm with instance a and differs from
\* it in the issuer or in the audience
OtherBinding(a, b) ==
  /\ cfg[a].privateKey = cfg[b].privateKey
  /\ cfg[a].publicKey = cfg[b].publicKey
  /\ cfg[a].algorithm = cfg[b].algorithm
  /\ cfg[a].issuer # cfg[b].issuer \/ cfg[a].audience # cfg[b].audience

\* C5 (issuer/audience binding): a token generated by an instance with
\* another issuer or audience, same key pair and algorithm, resolves to
\* valid=false; valid=true implies that iss and aud of the token are the
\* issuer and audience of the resolving instance.
IssuerAudienceBinding ==
  \A c \in Finished :
    LET call == calls[c] IN
    /\ (\E b \in Auths : OtherBinding(call.auth, b) /\ call.token \in GeneratedBy(b))
         => ~call.result.valid
    /\ call.result.valid
         => /\ call.token.payload.iss = cfg[call.auth].issuer
            /\ call.token.payload.aud = cfg[call.auth].audience

IssuerAudienceBindingWitness ==
  \E c \in Finished : \E b \in Auths :
    /\ OtherBinding(calls[c].auth, b)
    /\ cfg[calls[c].auth].issuer = cfg[b].issuer
    /\ calls[c].token \in GeneratedBy(b)
    /\ calls[c].result.code = "ERR_JWT_CLAIM_VALIDATION_FAILED"

\* the resolve calls in which the token verified and the principal provider
\* yielded absent
PrincipalAbsent ==
  {c \in Finished : calls[c].resolverCalls = 1 /\ calls[c].provided.kind = "absent"}

ProviderValidates ==
  \A c \in Finished :
    calls[c].provided.kind = "value" => SchemaOK(calls[c].provided.principal)

\* the JOSEError jwtVerify throws for the call's token at the time it ran
VerifyFailure(c) ==
  JwtVerify(calls[c].token, calls[c].key, cfg[calls[c].auth], calls[c].vnow)

\* C8 (failure codes): a resolver or access provider that throws something
\* that is no JOSE error gives valid=false with the code AUTH_INTERNAL_ERROR
\* and the message of the thrown error (String(error) when it is no Error); a
\* token-verification failure gives the JOSE error's own code and message.
FailureCodes ==
  \A c \in Finished :
    LET call == calls[c] IN
    /\ (call.provided.kind = "threw" /\ call.provided.error.class # "JOSEError")
         => call.result =
              [valid |-> FALSE, code |-> "AUTH_INTERNAL_ERROR",
               message |-> IF call.provided.error.class = "string"
                             THEN call.provided.error.text
                             ELSE call.provided.error.message]
    /\ (call.provided.kind = "value" /\ call.accessKind = "throws")
         => call.result = [valid |-> FALSE, code |-> "AUTH_INTERNAL_ERROR",
                           message |-> "access failed"]
    /\ call.resolverCalls = 0
         => /\ call.result.code \in JoseCodes
            /\ call.result.code = VerifyFailure(c).code
            /\ call.result.message = VerifyFailure(c).message

FailureCodesWitness ==
  \E c \in Finished :
    /\ calls[c].provided.kind = "threw"
    /\ calls[c].result.code = "AUTH_INTERNAL_ERROR"
    /\ calls[c].result.message = "lookup failed"

\* C12 (toJSON): for a valid session returned by resolve, toJSON() is the
\* object {id} and nothing else, with id the subject id of the verified
\* token's payload; roles, attributes, access and token metadata are not in it.
SessionJSON ==
  \A c \in Finished :
    calls[c].result.valid
      => /\ calls[c].result.toJSON = [id |-> calls[c].token.payload.id]
         /\ calls[c].result.toJSON.id = calls[c].result.meta.payload.id

\* the test suite's call: generate({id: "account-a"}), then resolve
SessionJSONWitness ==
  \E c \in Finished :
    /\ calls[c].token \in GeneratedBy(calls[c].auth)
    /\ calls[c].token.payload.id = "account-a"
    /\ calls[c].result.valid
    /\ calls[c].result.toJSON = [id |-> "account-a"]

\* C13 (one variant): a SessionResolution returned by resolve is either
\* valid=true with principal, access and the token's header and payload and
\* without code and message, or valid=false with code and message and
\* without principal, access and token metadata.
OneVariant ==
  \A c \in Finished :
    LET r == calls[c].result IN
    /\ r.valid \in BOOLEAN
    /\ r.valid
         => /\ {"principal", "access", "meta"} \subseteq DOMAIN r
            /\ {"code", "message"} \cap DOMAIN r = {}
            /\ r.principal = calls[c].provided.principal
            /\ r.meta = [headers |-> calls[c].token.header,
                         payload |-> calls[c].token.payload]
    /\ ~r.valid
         => /\ {"code", "message"} \subseteq DOMAIN r
            /\ {"principal", "access", "meta", "toJSON"} \cap DOMAIN r = {}

\* a valid session whose metadata is that of the test suite's token
OneVariantWitness ==
  \E c \in Finished :
    /\ calls[c].result.valid
    /\ calls[c].result.meta.headers.alg = "RS256"
    /\ calls[c].result.meta.payload.iss = IssuerA
    /\ calls[c].result.meta.payload.aud = IssuerA
    /\ "code" \notin DOMAIN calls[c].result

Starts(c, a) == calls[c].pc = "idle" /\ calls'[c].pc # "idle" /\ calls'[c].auth = a

\* C19 (one import per key): once an access of `secret` (of `pubkey`) has
\* cached the key of an instance, the cached key is never replaced, and every
\* generate (resolve) call that starts on the instance afterwards gets the
\* cached key at once and starts no import.
ImportOnce ==
  [][\A a \in Auths :
       /\ secret[a] # NoKey => secret'[a] = secret[a]
       /\ pubkey[a] # NoKey => pubkey'[a] = pubkey[a]
       /\ \A c \in Slots :
            /\ (Starts(c, a) /\ calls'[c].op = "generate" /\ secret[a] # NoKey)
                 => /\ calls'[c].pc = "cached"
                    /\ calls'[c].key = secret[a]
            /\ (Starts(c, a) /\ calls'[c].op = "resolve" /\ pubkey[a] # NoKey)
                 => /\ calls'[c].pc = "cached"
                    /\ calls'[c].key = pubkey[a]]_vars

\* a resolve call that got the public key from the cache, started after a
\* generate and an earlier resolve on the same instance
ImportOnceWitness ==
  \E c \in ResolveCalls :
    /\ callers = {1}
    /\ calls[c].pc = "cached"
    /\ calls[c].token \in GeneratedBy(calls[c].auth)
    /\ calls[c].key = pubkey[calls[c].auth]
    /\ calls[c].key = PublicKey(calls[c].auth)
    /\ secret[calls[c].auth] # NoKey

EveryCallSettles ==
  \A c \in Slots : (calls[c].pc # "idle") ~> (calls[c].pc = "done")

\* the instances whose configured key strings both import
KeysImport(a) == ImportPKCS8(cfg[a].privateKey).ok /\ ImportSPKI(cfg[a].publicKey).ok

\* every call on an instance whose key strings import eventually completes
ImportableCallsSettle ==
  \A c \in Slots :
    (calls[c].pc # "idle" /\ KeysImport(calls[c].auth)) ~> (calls[c].pc = "done")

\* the key a call of the given kind on instance a is to be given
ImportOf(op, a) ==
  IF op = "generate" THEN ImportPKCS8(cfg[a].privateKey).key
                     ELSE ImportSPKI(cfg[a].publicKey).key

\* the calls that have been given a key
Keyed == {c \in Slots : calls[c].op # "none" /\ calls[c].pc \notin {"idle", "import", "hung"}}

\* C22 (benign key-cache race): in every interleaving, the key a call is
\* given is the import of the configured key string, the cache of an
\* instance is empty or holds that import, it holds it once a call on the
\* instance has been given the key, and a filled cache never changes.
KeyCacheRace ==
  /\ [](\A a \in Auths :
           /\ secret[a] \in {NoKey, ImportOf("generate", a)}
           /\ pubkey[a] \in {NoKey, ImportOf("resolve", a)})
  /\ [](\A c \in Keyed :
           /\ calls[c].key # NoKey
           /\ calls[c].key = ImportOf(calls[c].op, calls[c].auth)
           /\ calls[c].op = "generate" => secret[calls[c].auth] = calls[c].key
           /\ calls[c].op = "resolve" => pubkey[calls[c].auth] = calls[c].key)
  /\ [][\A a \in Auths :
          /\ secret[a] # NoKey => secret'[a] = secret[a]
          /\ pubkey[a] # NoKey => pubkey'[a] = pubkey[a]]_vars

\* two resolve calls on one instance that both started an import, both
\* imports done
KeyCacheRaceWitness ==
  /\ \A c \in Slots : calls[c].op = "resolve" /\ calls[c].pc = "keyed"
  /\ calls[1].auth = calls[2].auth
  /\ calls[1].key = calls[2].key
  /\ pubkey[calls[1].auth] = calls[1].key

\* the token of a call passes every check of jwtVerify at the time it ran
Verifies(c) ==
  /\ calls[c].token.form = "jws"
  /\ SignatureVerifies(calls[c].token, PublicKey(calls[c].auth))
  /\ calls[c].token.payload.iss = cfg[calls[c].auth].issuer
  /\ calls[c].token.payload.aud = cfg[calls[c].auth].audience
  /\ calls[c].token.payload.exp > calls[c].vnow

\* C23 (step order): in a resolve call the principal resolver is invoked
\* only once the token has verified, with the id of the verified payload;
\* the access provider is invoked only once the resolver has returned a
\* principal, with that principal; when verification fails neither is
\* invoked.
StepOrder ==
  \A c \in ResolveCalls :
    LET call == calls[c] IN
    /\ call.resolverCalls \in {0, 1}
    /\ call.accessCalls \in {0, 1}
    /\ call.resolverCalls = 1
         => /\ call.pc \in {"principal", "done"}
            /\ Verifies(c)
            /\ call.resolverArg = call.token.payload.id
    /\ call.accessCalls = 1
         => /\ call.pc = "done"
            /\ call.resolverCalls = 1
            /\ call.provided.kind = "value"
            /\ call.accessArg = call.provided.principal
    /\ (call.pc = "done" /\ ~Verifies(c))
         => call.resolverCalls = 0 /\ call.accessCalls = 0

\* a call that went through the three steps
StepOrderWitness ==
  \E c \in Finished :
    /\ Verifies(c)
    /\ calls[c].resolverCalls = 1
    /\ calls[c].resolverArg = "abc"
    /\ calls[c].accessCalls = 1
    /\ calls[c].accessArg.id = "abc"

\* what the resolve call in slot c returns when it runs alone: a function of
\* its token, the time, the configuration and what its collaborators yield
Alone(c) ==
  LET call == calls[c]
      v == JwtVerify(call.token, PublicKey(call.auth), cfg[call.auth], call.vnow) IN
  IF v.ok
    THEN Resolved(call.token,
                  PrincipalProviderResolve(call.resolver, call.token.payload.id),
                  call.accessKind)
    ELSE Catch(Thrown("JOSEError", v.code, v.message, v.message))

\* C24 (independent calls): in every interleaving, the result of a resolve
\* call is the one it gives when run alone, and the principal and access of
\* a valid result are those of the id of the call's own token.
Independent ==
  \A c \in Finished :
    /\ calls[c].result = Alone(c)
    /\ calls[c].result.valid
         => /\ calls[c].result.principal.id = calls[c].token.payload.id
            /\ calls[c].result.access.principal.id = calls[c].token.payload.id

\* a valid result for one id while a call with a token of the other id,
\* verified as well, waits for its principal
IndependentWitness ==
  \E c \in Finished : \E d \in ResolveCalls :
    /\ calls[c].result.valid
    /\ calls[d].pc = "principal"
    /\ calls[d].token.payload.id # calls[c].token.payload.id
    /\ calls[c].result.principal.id = calls[c].token.payload.id

\* a step of a call of the given kind
StepOf(op) ==
  \E c \in Slots : calls'[c] # calls[c] /\ op \in {calls[c].op, calls'[c].op}

\* C25 (key frame): no step of a resolve call changes #secret and no resolve
\* call is given the private key; no step of a generate call changes #pubkey
\* and no generate call is given the public key.
KeyFrame ==
  /\ [](\A c \in Slots :
           /\ calls[c].op = "resolve" => calls[c].key.type # "private"
           /\ calls[c].op = "generate" => calls[c].key.type # "public")
  /\ [][(StepOf("resolve") => secret' = secret)
         /\ (StepOf("generate") => pubkey' = pubkey)]_vars

\* a resolve call has returned on an instance that never imported its
\* private key
KeyFrameWitness ==
  \E c \in Finished :
    /\ secret[calls[c].auth] = NoKey
    /\ pubkey[calls[c].auth] # NoKey
    /\ calls[c].key = pubkey[calls[c].auth]

\* C28 (token contents): the token of a generate call carries the id passed
\* in, iat = the time of the call, the issuer and audience of the instance,
\* an exp claim and the header alg of the instance, and the token returned
\* is signed over exactly these; the metadata of a valid session is the
\* header and payload of its token, with iss, aud and alg those of the
\* resolving instance.
TokenContents ==
  /\ \A c \in Generating :
       LET call == calls[c] IN
       /\ call.token.payload.id = call.args.id
       /\ call.token.payload.iat = call.args.at
       /\ call.token.payload.iat <= now
       /\ call.token.payload.iss = cfg[call.auth].issuer
       /\ call.token.payload.aud = cfg[call.auth].audience
       /\ call.token.payload.exp \in Int
       /\ call.token.header.alg = cfg[call.auth].algorithm
       /\ call.pc = "done"
            => /\ call.token \in issued
               /\ call.token.sig.payload = call.token.payload
               /\ call.token.sig.header = call.token.header
  /\ \A c \in Finished :
       calls[c].result.valid
         => /\ calls[c].result.meta.payload = calls[c].token.payload
            /\ calls[c].result.meta.headers = calls[c].token.header
            /\ calls[c].result.meta.payload.iss = cfg[calls[c].auth].issuer
            /\ calls[c].result.meta.payload.aud = cfg[calls[c].auth].audience
            /\ calls[c].result.meta.headers.alg = cfg[calls[c].auth].algorithm

\* a token generated after the clock has advanced, on an instance whose
\* issuer is not its audience
TokenContentsWitness ==
  \E c \in Generating :
    /\ calls[c].pc = "done"
    /\ calls[c].args.at > 0
    /\ calls[c].token.payload.iat = calls[c].args.at
    /\ calls[c].token.payload.iss # calls[c].token.payload.aud
    /\ calls[c].token \in issued

\* a token generate returned with a negated time span
NegatedSpan(t) == \E d \in Spans : t.payload.exp = t.payload.iat - d

\* C29 (expiration claim): exp is iat + 3600 when the expiration is omitted,
\* the number itself for a number, the time of the call plus the span for a
\* time span and minus the span for a negated one; a token generated with a
\* negated span resolves to valid=false (expired) whenever it is resolved.
ExpirationClaim ==
  /\ \A c \in Generating :
       LET e == calls[c].args.expiration
           at == calls[c].args.at
           payload == calls[c].token.payload IN
       /\ e.kind = "default" => payload.exp = payload.iat + Hour
       /\ e.kind = "number" => payload.exp = e.v
       /\ (e.kind = "span" /\ ~e.neg) => payload.exp = at + e.v
       /\ (e.kind = "span" /\ e.neg) => payload.exp = at - e.v
  /\ \A c \in Finished :
       (calls[c].token \in GeneratedBy(calls[c].auth) /\ NegatedSpan(calls[c].token))
         => /\ ~calls[c].result.valid
            /\ calls[c].result.code = "ERR_JWT_EXPIRED"

\* a token generated with a negated span, resolved at the time of its
\* generation
ExpirationClaimWitness ==
  \E c \in Finished :
    /\ calls[c].token \in GeneratedBy(calls[c].auth)
    /\ NegatedSpan(calls[c].token)
    /\ calls[c].vnow = calls[c].token.payload.iat
    /\ calls[c].result.code = "ERR_JWT_EXPIRED"

-----------------------------------------------------------------------------
\* Properties of ResourceRegistry

Registered(kind) == \E i \in 1..Len(resources) : resources[i].kind = kind

\* the entry of the constructor's list that get(kind) answers with: the last
\* one of that kind
EntryOf(kind) ==
  LET last == CHOOSE i \in 1..Len(resources) :
                /\ resources[i].kind = kind
                /\ \A j \in 1..Len(resources) : resources[j].kind = kind => j <= i
  IN resources[last]

\* raw attributes conform to a shape
Conforms(shape, raw) ==
  \A k \in DOMAIN shape : k \in DOMAIN raw /\ raw[k].ty = shape[k]

\* C9 (registry closure): has(kind) is true exactly for the kinds of the
\* list the registry was built from; get(kind) returns the schema and actions
\* of the kind's entry exactly then, and fails with ResourceNotFoundError for
\* every kind never registered.
RegistryClosure ==
  /\ lastOp.op = "has" => lastOp.out = [returned |-> Registered(lastOp.kind)]
  /\ lastOp.op = "get" =>
       IF Registered(lastOp.kind)
         THEN lastOp.out =
                [returned |-> [kind |-> lastOp.kind,
                               attr |-> EntryOf(lastOp.kind).attr,
                               actions |-> EntryOf(lastOp.kind).actions]]
         ELSE lastOp.out = [threw |-> "ResourceNotFoundError", kind |-> lastOp.kind]

RegistryClosureWitness ==
  /\ lastOp.op = "get"
  /\ Len(resources) = MaxEntries
  /\ ~Registered(lastOp.kind)
  /\ lastOp.out = [threw |-> "ResourceNotFoundError", kind |-> lastOp.kind]

\* C10 (parse failures): parse of an unregistered kind fails with
\* ResourceNotFoundError whatever the raw attributes; parse of a registered
\* kind with raw attributes that do not conform fails with a schema
\* validation error; in both cases no Resource is returned.
ParseFailures ==
  lastOp.op = "parse" =>
    /\ ~Registered(lastOp.kind)
         => lastOp.out = [threw |-> "ResourceNotFoundError", kind |-> lastOp.kind]
    /\ (Registered(lastOp.kind) /\ ~Conforms(EntryOf(lastOp.kind).attr, lastOp.raw))
         => lastOp.out = [threw |-> "ZodError"]

ParseFailuresWitness ==
  /\ lastOp.op = "parse"
  /\ Registered(lastOp.kind)
  /\ ~Conforms(EntryOf(lastOp.kind).attr, lastOp.raw)
  /\ "returned" \notin DOMAIN lastOp.out

\* C11 (parse success): parse of a registered kind with conforming raw
\* attributes returns {kind, id, attr} with the kind and the id that were
\* passed in and with attr the raw attributes the kind's schema names; every
\* value parse returns has the arguments' kind and id and an attr that
\* validates against the schema, equal to the input when the input has the
\* schema's keys only.
ParseSuccess ==
  lastOp.op = "parse" =>
    /\ (Registered(lastOp.kind) /\ Conforms(EntryOf(lastOp.kind).attr, lastOp.raw))
         => lastOp.out =
              [returned |->
                 [kind |-> lastOp.kind, id |-> lastOp.id,
                  attr |-> [k \in DOMAIN EntryOf(lastOp.kind).attr |-> lastOp.raw[k]]]]
    /\ "returned" \in DOMAIN lastOp.out
         => /\ Registered(lastOp.kind)
            /\ lastOp.out.returned.kind = lastOp.kind
            /\ lastOp.out.returned.id = lastOp.id
            /\ Conforms(EntryOf(lastOp.kind).attr, lastOp.out.returned.attr)
            /\ DOMAIN lastOp.raw = DOMAIN EntryOf(lastOp.kind).attr
                 => lastOp.out.returned.attr = lastOp.raw

\* the test suite's call: parse("user", id, {public: true}) on a registry
\* whose kind "user" has the attribute {public: boolean}
ParseSuccessWitness ==
  /\ lastOp.op = "parse"
  /\ lastOp.kind = "user"
  /\ lastOp.raw = [public |-> Bool("true")]
  /\ lastOp.out = [returned |-> [kind |-> "user", id |-> lastOp.id,
                                 attr |-> [public |-> Bool("true")]]]

\* C26 (read-only registry): no has, get or parse call, returning or
\* failing, changes #index or the list it was built from; the index is at
\* all times the one the constructor built, so has and get answer a kind
\* the same before and after any sequence of calls.
ReadOnly ==
  /\ [](index = RegistryIndex(resources))
  /\ [][index' = index /\ resources' = resources]_vars

\* a failing lookup of an unregistered kind has left the index alone
ReadOnlyWitness ==
  /\ lastOp.op \in {"get", "parse"}
  /\ "threw" \in DOMAIN lastOp.out
  /\ lastOp.kind \notin DOMAIN index
  /\ resources # <<>>
  /\ index = RegistryIndex(resources)

\* the list has two entries of the kind
Duplicated(kind) ==
  \E i, j \in 1..Len(resources) :
    i < j /\ resources[i].kind = kind /\ resources[j].kind = kind

\* C27 (last wins): when the list has two entries of one kind, the registry
\* is built, has(kind) is true, get(kind) returns schema and actions of the
\* later entry, and parse(kind, ...) validates against the later entry's
\* schema.
LastWins ==
  \A kind \in KindInputs :
    Duplicated(kind)
      => /\ kind \in DOMAIN index
         /\ (lastOp.op = "has" /\ lastOp.kind = kind)
              => lastOp.out = [returned |-> TRUE]
         /\ (lastOp.op = "get" /\ lastOp.kind = kind)
              => lastOp.out =
                   [returned |-> [kind |-> kind, attr |-> EntryOf(kind).attr,
                                  actions |-> EntryOf(kind).actions]]
         /\ (lastOp.op = "parse" /\ lastOp.kind = kind)
              => IF Conforms(EntryOf(kind).attr, lastOp.raw)
                   THEN /\ "returned" \in DOMAIN lastOp.out
                        /\ DOMAIN lastOp.out.returned.attr = DOMAIN EntryOf(kind).attr
                   ELSE lastOp.out = [threw |-> "ZodError"]

\* two entries of kind "user" with different schemas: attributes that only
\* the later schema accepts are parsed
LastWinsWitness ==
  /\ Duplicated("user")
  /\ resources[1].attr = UserAttr
  /\ EntryOf("user").attr = PublicAttr
  /\ lastOp.op = "parse"
  /\ lastOp.kind = "user"
  /\ lastOp.raw = [public |-> Bool("true")]
  /\ "returned" \in DOMAIN lastOp.out

-----------------------------------------------------------------------------
\* Properties of the migration runner

\* the idx recorded in the migration table
Recorded == {r.idx : r \in table}

Ascending(s) == \A i, j \in 1 .. Len(s) : i < j => s[i].idx <= s[j].idx

\* the ups of a run are executed in ascending idx order
OrderedUps == [](Ascending(run.ups))

\* the effects of an up and its row are committed in one step, or neither
CommitTogether ==
  /\ []({Row(database[i]) : i \in 1 .. Len(database)} = table)
  /\ [][(table' # table) <=> (database' # database)]_vars

\* a runner that threw stopped at the migration that failed: it is the last
\* one executed, it has no row, every earlier up of the run is recorded and
\* none has a larger idx
FailureStops ==
  /\ [](run.pc = "thrown"
          => /\ run.ups # <<>>
             /\ run.ups[Len(run.ups)] = Current
             /\ Row(Current) \notin table
             /\ \A i \in 1 .. Len(run.ups) : run.ups[i].idx <= Current.idx)
  /\ [](\A i \in 1 .. Len(run.ups) - 1 : Row(run.ups[i]) \in table)
  /\ [](run.pc \in {"loop", "done"}
          => \A i \in 1 .. Len(run.ups) : Row(run.ups[i]) \in table)

\* C30 as stated: the ups are executed in ascending idx order, up is never
\* executed for a migration whose idx is recorded in the migration table, an
\* up and its row commit together, and a failure makes the runner throw
\* with the migration unrecorded and no later migration executed.
MigrationRun ==
  /\ OrderedUps
  /\ [][Len(run'.ups) > Len(run.ups)
          => run'.ups[Len(run'.ups)].idx \notin Recorded]_vars
  /\ CommitTogether
  /\ FailureStops

\* What the runner does guarantee: the ups are executed in ascending idx
\* order; up is never executed
\* for a migration whose idx was recorded when the run read the table, and
\* no up is committed for an idx that is recorded (an up executed for an idx
\* recorded since is rolled back with its insert and the runner throws); an
\* up and its row commit together, and a failure makes the runner throw
\* with the migration unrecorded and no later migration executed.
MigrationRunSnapshot ==
  /\ OrderedUps
  /\ [](\A i \in 1 .. Len(run.ups) : run.ups[i].idx \notin run.applied)
  /\ [](\A i, j \in 1 .. Len(database) :
          database[i].idx = database[j].idx => i = j)
  /\ [][(run.pc = "insert" /\ Current.idx \in Recorded)
          => (run'.pc = "thrown" /\ table' = table /\ database' = database)]_vars
  /\ CommitTogether
  /\ FailureStops

\* a run that skipped a recorded migration, committed one and threw at the
\* next
SkippedCommittedThrown ==
  /\ run.pc = "thrown"
  /\ run.applied # {}
  /\ Len(run.ups) = 2
  /\ Row(run.ups[1]) \in table
  /\ Len(database) = 2

-----------------------------------------------------------------------------
\* Properties of the access control instance

\* the principal the instance of the last call was built for
Bound == instances[accessOp.on].principal

\* C14 (batch ordering): checkResources of a list of n resource/actions
\* pairs returns n results, and the i-th result carries the kind and the id
\* of the i-th resource of the list.
BatchOrdering ==
  accessOp.op = "checkResources" =>
    LET pairs == accessOp.args[1] IN
    /\ Len(accessOp.out) = Len(pairs)
    /\ \A i \in 1..Len(pairs) :
         /\ accessOp.out[i].kind = pairs[i].resource.kind
         /\ accessOp.out[i].id = pairs[i].resource.id

\* a full batch that starts with the user, then the post
BatchOrderingWitness ==
  /\ accessOp.op = "checkResources"
  /\ Len(accessOp.args[1]) = MaxBatch
  /\ Len(accessOp.out) = MaxBatch
  /\ accessOp.args[1][1].resource.kind = "user"
  /\ accessOp.args[1][MaxBatch].resource.kind = "post"
  /\ accessOp.out[1].id = "1"
  /\ accessOp.out[MaxBatch].id = "2"

\* the requested actions that isAllowed permits on the resource
Permitted(instance, resource, actions) ==
  LET Allowed(a) == IsAllowedResource(instance, resource, a) IN
  SelectSeq(actions, Allowed)

\* C15 as stated: the actions of the result of checkResource(resource,
\* actions) are the requested actions for which isAllowed(resource, action)
\* is true for the principal of the instance.
CheckResourceFilters ==
  accessOp.op = "checkResource" =>
    accessOp.out.actions =
      Permitted(instances[accessOp.on], accessOp.args[1], accessOp.args[2])

\* C16 as stated: isAllowed is true when the tenantId of the principal
\* equals the tenantId of the resource and false when they differ.
TenantCheck ==
  /\ accessOp.op = "isAllowed"
       => accessOp.out = (Bound.attributes.tenantId = accessOp.args[1])
  /\ accessOp.op = "isAllowedResource"
       => accessOp.out = (Bound.attributes.tenantId = accessOp.args[1].attr.tenantId)

\* C16 as amended: isAllowed(tenantId) is true exactly when the tenantId of
\* the principal equals the argument; isAllowed(resource, action) is true
\* exactly when the action is "read" and the tenantId of the principal equals
\* the tenantId of the resource, so it is false whenever the tenants differ.
TenantCheckRead ==
  /\ accessOp.op = "isAllowed"
       => accessOp.out = (Bound.attributes.tenantId = accessOp.args[1])
  /\ accessOp.op = "isAllowedResource"
       => accessOp.out = (/\ accessOp.args[2] = "read"
                          /\ Bound.attributes.tenantId = accessOp.args[1].attr.tenantId)

\* the action "update" on a resource of the principal's own tenant is denied
TenantCheckReadWitness ==
  /\ accessOp.op = "isAllowedResource"
  /\ accessOp.args[2] = "update"
  /\ Bound.attributes.tenantId = accessOp.args[1].attr.tenantId
  /\ accessOp.out = FALSE

====
